---- MODULE Spec2Model ----
(***************************************************************************)
(* compareSTR: the merge walk of main over two VCF readers and the         *)
(* per-locus comparison UpdateComparisonResults                            *)
(* (src/trtools/compareSTR/compareSTR.py).                                 *)
(*                                                                         *)
(* numpy arrays are sequences; Python's 0-based indices are kept as        *)
(* naturals, so element i of an array a is a[i + 1].                       *)
(* trtools.utils.mergeutils and trtools.utils.tr_harmonizer are not part   *)
(* of the sources at hand: what main calls in them is modelled from the    *)
(* written specification (sections 3, 4.1 to 4.4 and 7).                   *)
(***************************************************************************)
EXTENDS Integers, Sequences, FiniteSets, TLC

\* ------------------------------------------------------------- bounds
\* most records a reader yields before it is exhausted
MaxLen == 2
\* largest POS of a record
MaxPos == 2
\* largest value of --numrecords that is tried
MaxCutoff == 1
\* most direct calls of UpdateComparisonResults on one pair of tables
MaxCalls == 1
\* most characters of --stratify-fields and of --stratify-binsizes
MaxStr == 3
\* most samples of a TRRecord built directly
MaxSamples == 2

\* Python's None: among strings, among records, among integers
None == "None"
NoRecord == [CHROM |-> "None", POS |-> 0, kind |-> "None"]
Unset == 0 - 1

\* ------------------------------------------------------- numpy helpers
RECURSIVE SumSeq(_)
SumSeq(s) == IF s = <<>> THEN 0 ELSE Head(s) + SumSeq(Tail(s))

B2I(b) == IF b THEN 1 ELSE 0

\* np.sum of a boolean array
CountTrue(mask) == SumSeq([j \in 1..Len(mask) |-> B2I(mask[j])])

\* a[idx] for an integer index array idx (0-based entries)
Take(a, idx) == [j \in 1..Len(idx) |-> a[idx[j] + 1]]

InRange(a, idx) == \A j \in 1..Len(idx) : idx[j] + 1 \in 1..Len(a)

\* a[mask] for a boolean mask of the same length
RECURSIVE Mask(_, _)
Mask(a, mask) ==
  IF a = <<>> THEN <<>>
  ELSE IF Head(mask) THEN <<Head(a)>> \o Mask(Tail(a), Tail(mask))
       ELSE Mask(Tail(a), Tail(mask))

\* whether numpy can broadcast two 1-d shapes (n,) and (m,) together
Broadcastable(n, m) == n = m \/ n = 1 \/ m = 1

\* a op= b on 1-d arrays: b must broadcast to the shape of a
InPlaceOk(n, m) == m = n \/ m = 1

\* b as seen by a of length n (b of length n, or of length 1 repeated)
Stretch(b, n) == [j \in 1..n |-> IF Len(b) = 1 THEN b[1] ELSE b[j]]

\* np.argsort(a): the 0-based positions of a in increasing order of value
\* (sample identifiers of one reader are distinct)
ArgSort(a) ==
  [k \in 1..Len(a) |->
     (CHOOSE j \in 1..Len(a) :
        Cardinality({i \in 1..Len(a) : a[i] < a[j]}) = k - 1) - 1]

\* np.searchsorted(a, vals, sorter=sort): for each value its insertion point
\* (side='left') in a[sort], the array a taken in sorted order
SearchSorted(a, vals, sort) ==
  LET sorted == Take(a, sort)
  IN  [k \in 1..Len(vals) |->
         Cardinality({i \in 1..Len(sorted) : sorted[i] < vals[k]})]

\* np.where(a) with one argument: a 1-tuple holding the 0-based positions
\* of the nonzero entries of a
RECURSIVE NonZeroFrom(_, _)
NonZeroFrom(a, k) ==
  IF k > Len(a) THEN <<>>
  ELSE (IF a[k] # 0 THEN <<k - 1>> ELSE <<>>) \o NonZeroFrom(a, k + 1)

NpWhere(a) == [tuple |-> TRUE, idx |-> NonZeroFrom(a, 1)]

\* an index array as the docstring of UpdateComparisonResults describes it
NpArray(idx) == [tuple |-> FALSE, idx |-> idx]
\* ------------------------------------------------ TRRecord (section 3)
\* An allele: seq identifies its sequence, bp is its length in base pairs.
\* A sample entry: called, and gt, its allele indices (0 the reference,
\* i > 0 alt_alleles[i]; -1 a missing allele of an uncalled sample).
MissingAllele == [seq |-> -1, bp |-> 0]

AlleleOf(rec, i) ==
  IF i = 0 THEN rec.ref_allele
  ELSE IF i \in 1..Len(rec.alt_alleles) THEN rec.alt_alleles[i]
  ELSE MissingAllele

GetCalledSamples(rec) == [s \in 1..Len(rec.samples) |-> rec.samples[s].called]

GetSamplePloidies(rec) == [s \in 1..Len(rec.samples) |-> Len(rec.samples[s].gt)]

\* one row per sample: the sequences of the sample's alleles, in genotype order
GetStringGenotypes(rec) ==
  [s \in 1..Len(rec.samples) |->
     [k \in 1..Len(rec.samples[s].gt) |-> AlleleOf(rec, rec.samples[s].gt[k]).seq]]

\* one row per sample: the alleles' lengths in repeat units
GetLengthGenotypes(rec) ==
  [s \in 1..Len(rec.samples) |->
     [k \in 1..Len(rec.samples[s].gt) |->
        AlleleOf(rec, rec.samples[s].gt[k]).bp \div rec.motif_len]]

\* ------------------------------------------------------ result tables
LocusKeys == {"chrom", "start", "period", "numcalls", "gtsum1", "gtsum2",
              "metric-conc-seq", "metric-conc-len"}

SampleKeys == {"numcalls", "conc-seq-count", "conc-len-count"}

\* main, lines 458-472
NewLocusResults == [k \in LocusKeys |-> <<>>]

NewSampleResults(nsamples) == [k \in SampleKeys |-> [j \in 1..nsamples |-> 0]]

Put(table, key, val) == [table EXCEPT ![key] = Append(@, val)]

\* a += b on a 1-d integer array (b boolean, already of a's length)
AddFlags(a, b) == [j \in 1..Len(a) |-> a[j] + B2I(b[j])]

\* -------------------------------------------- UpdateComparisonResults
Raised(e, locus, sample) == [exc |-> e, locus |-> locus, sample |-> sample]

\* BothCalled with logical_or in the place of logical_and
BothCalledEither(c1, c2) ==
  LET n == IF Len(c1) = 1 THEN Len(c2) ELSE Len(c1)
  IN  [j \in 1..n |-> Stretch(c1, n)[j] \/ Stretch(c2, n)[j]]

\* lines 373-376: np.logical_and of the two restricted called masks (shapes
\* that differ broadcast when one of them is 1)
BothCalled(c1, c2) ==
  LET n == IF Len(c1) = 1 THEN Len(c2) ELSE Len(c1)
  IN  [j \in 1..n |-> Stretch(c1, n)[j] /\ Stretch(c2, n)[j]]

\* line 391: the truth value Python takes of the array ploidies1 != ploidies2.
\* "ambiguous" stands for the ValueError numpy raises for an array of more
\* than one element, and, in the numpy releases that no longer accept it,
\* for an empty array (strict).
PloidyTest(p1, p2, strict) ==
  LET ne == [j \in 1..Len(p1) |-> p1[j] # p2[j]]
  IN  IF Len(ne) > 1 THEN "ambiguous"
      ELSE IF Len(ne) = 0 THEN (IF strict THEN "ambiguous" ELSE "false")
      ELSE IF ne[1] THEN "true" ELSE "false"

\* lines 396 and 403: np.all(gts1 == gts2, axis=1)
RowsEqual(g1, g2) == [j \in 1..Len(g1) |-> g1[j] = g2[j]]

\* lines 401-402: np.sum(gts_length, axis=1) - reflen*2
GtSum(g, reflen) == [j \in 1..Len(g) |-> SumSeq(g[j]) - reflen * 2]

\* lines 394-413, once the ploidy test has passed
CompareCalled(record1, record2, csi1, csi2, both_called, reflen, locus, sample) ==
  LET gts_string_1 == Take(GetStringGenotypes(record1), csi1)
      gts_string_2 == Take(GetStringGenotypes(record2), csi2)
      conc_seq == RowsEqual(gts_string_1, gts_string_2)
      gts_length_1 == Take(GetLengthGenotypes(record1), csi1)
      gts_length_2 == Take(GetLengthGenotypes(record2), csi2)
      conc_len == RowsEqual(gts_length_1, gts_length_2)
      locus2 == Put(Put(Put(Put(locus, "metric-conc-seq", conc_seq),
                            "gtsum1", GtSum(gts_length_1, reflen)),
                        "gtsum2", GtSum(gts_length_2, reflen)),
                    "metric-conc-len", conc_len)
      n == Len(sample["numcalls"])
      sample1 == [sample EXCEPT !["numcalls"] = AddFlags(@, Stretch(both_called, n))]
      sample2 == [sample1 EXCEPT !["conc-seq-count"] = AddFlags(@, Stretch(conc_seq, n))]
      sample3 == [sample2 EXCEPT !["conc-len-count"] = AddFlags(@, Stretch(conc_len, n))]
  IN  IF ~InPlaceOk(n, Len(both_called)) THEN Raised("ValueError@411", locus2, sample)
      ELSE IF ~InPlaceOk(n, Len(conc_seq)) THEN Raised("ValueError@412", locus2, sample1)
      ELSE Raised(None, locus2, sample3)

\* lines 345-413. The result holds the exception raised (None when the call
\* returns) and the two tables as the call leaves them: the tables are
\* updated in place, so what was appended before a raise stays appended.
UpdateComparisonResults(record1, record2, sample_idxs, locus_results, sample_results, strict) ==
  LET chrom == record1.CHROM
      pos == record1.POS
      period == record1.motif_len
      reflen == record1.ref_allele.bp \div period
      idx1 == sample_idxs[1].idx
      idx2 == sample_idxs[2].idx
      called1 == GetCalledSamples(record1)
      called2 == GetCalledSamples(record2)
  IN
  IF ~InRange(called1, idx1) \/ ~InRange(called2, idx2)
  THEN Raised("IndexError@374", locus_results, sample_results)
  ELSE IF ~Broadcastable(Len(idx1), Len(idx2))
  THEN Raised("ValueError@373", locus_results, sample_results)
  ELSE
  LET both_called == BothCalled(Take(called1, idx1), Take(called2, idx2))
      locus1 == Put(Put(Put(Put(locus_results, "chrom", chrom), "start", pos),
                        "period", period), "numcalls", CountTrue(both_called))
  IN
  IF sample_idxs[1].tuple
  THEN Raised("TypeError@386", locus1, sample_results)
  ELSE IF Len(idx1) # Len(both_called) \/ Len(idx2) # Len(both_called)
  THEN Raised("IndexError@386", locus1, sample_results)
  ELSE
  LET csi1 == Mask(idx1, both_called)
      csi2 == Mask(idx2, both_called)
      ploidies1 == Take(GetSamplePloidies(record1), csi1)
      ploidies2 == Take(GetSamplePloidies(record2), csi2)
      test == PloidyTest(ploidies1, ploidies2, strict)
  IN
  IF test = "ambiguous" THEN Raised("ValueError@391", locus1, sample_results)
  ELSE IF test = "true" THEN Raised("ValueError@392", locus1, sample_results)
  ELSE CompareCalled(record1, record2, csi1, csi2, both_called, reflen,
                     locus1, sample_results)

\* ------------------------------------------------------ inputs of main
\* utils.GetContigs(vcfreaders[0]), line 430: the contig order of reader 1
chroms == <<"chr1", "chr2">>

\* vcf.samples of the two readers that are tried (identifiers are numbers
\* so that they sort): same order; permuted; one sample missing from
\* reader 1; nothing shared
VcfSamples == { << <<1, 2>>, <<1, 2>> >>, << <<1, 2>>, <<2, 1>> >>,
                << <<1>>, <<2, 1>> >>, << <<1>>, <<2>> >> }

\* what a reader yields: "ref" a record whose samples are all called 0/0,
\* "bad" a record its dialect cannot decode
RecordKinds == {"ref", "bad"}

RawRecords == [CHROM : {chroms[i] : i \in 1..Len(chroms)}, POS : 1..MaxPos,
               kind : RecordKinds]

\* the dialect tag InferVCFType resolves a reader to
Dialect == "gangstr"

RefAllele == [seq |-> 0, bp |-> 9]
AltAlleles == << [seq |-> 1, bp |-> 12], [seq |-> 2, bp |-> 12] >>
MotifLen == 3

Uncalled == [called |-> FALSE, gt |-> <<-1, -1>>]
Called(gt) == [called |-> TRUE, gt |-> gt]

\* ------------------------------- tr_harmonizer (sections 4.2 and 4.3)
\* Harmonize(dialect, rawRecord): fails when the record cannot be decoded
Decodable(vcftype, raw) == vcftype = Dialect /\ raw.kind # "bad"

HarmonizeRecord(vcftype, raw, nsamples) ==
  [CHROM |-> raw.CHROM, POS |-> raw.POS, motif_len |-> MotifLen,
   ref_allele |-> RefAllele, alt_alleles |-> AltAlleles,
   samples |-> [s \in 1..nsamples |-> Called(<<0, 0>>)]]

\* ------------------------------------------- mergeutils (section 4.4)
RECURSIVE IndexOf(_, _)
IndexOf(seq, x) == IF Head(seq) = x THEN 0 ELSE 1 + IndexOf(Tail(seq), x)

\* (contigRank, pos) of a record
Coord(r) == <<IndexOf(chroms, r.CHROM), r.POS>>

Less(a, b) == a[1] < b[1] \/ (a[1] = b[1] /\ a[2] < b[2])

\* the streams whose current record is at the minimum coordinate
GetMinRecords(records) ==
  [i \in 1..Len(records) |->
     /\ records[i] # NoRecord
     /\ \A j \in 1..Len(records) :
          records[j] # NoRecord => ~Less(Coord(records[j]), Coord(records[i]))]

CheckMin(mins) == \A i \in 1..Len(mins) : ~mins[i]

DoneReading(records) == \A i \in 1..Len(records) : records[i] = NoRecord

\* a reader yields a record below the one it yielded just before
OutOfOrder(prev, new) == prev # NoRecord /\ new # NoRecord /\ Less(Coord(new), Coord(prev))

\* GetSharedSamples: the identifiers in both readers, in reader 1's order
RECURSIVE Keep(_, _)
Keep(seq, set) ==
  IF seq = <<>> THEN <<>>
  ELSE (IF Head(seq) \in set THEN <<Head(seq)>> ELSE <<>>) \o Keep(Tail(seq), set)

Range(seq) == {seq[i] : i \in 1..Len(seq)}

GetSharedSamples(vs) == Keep(vs[1], Range(vs[2]))

\* --------------------------------------------------- GetFormatFields
\* A Python str is the sequence of its characters; an argument that may be
\* None is a record: given is FALSE for None.
NoStr == [given |-> FALSE, str |-> <<>>]
Str(s) == [given |-> TRUE, str |-> s]

RECURSIVE Strings(_, _)
Strings(alphabet, n) ==
  IF n = 0 THEN {<<>>}
  ELSE LET shorter == Strings(alphabet, n - 1)
       IN  shorter \cup {Append(s, c) : s \in {x \in shorter : Len(x) = n - 1},
                                        c \in alphabet}

\* str.split(sep): the pieces between the separators; one piece (the whole
\* string, possibly empty) when there is no separator
RECURSIVE Split(_, _)
Split(s, sep) ==
  IF \A j \in 1..Len(s) : s[j] # sep THEN <<s>>
  ELSE LET i == CHOOSE j \in 1..Len(s) :
                  s[j] = sep /\ \A k \in 1..(j - 1) : s[k] # sep
       IN  <<SubSeq(s, 1, i - 1)>> \o Split(SubSeq(s, i + 1, Len(s)), sep)

Digits == {"1"}

\* float(x) of line 74 raises ValueError unless x is a number (here: a
\* non-empty run of digits)
IsFloat(x) == Len(x) > 0 /\ \A j \in 1..Len(x) : x[j] \in Digits

RECURSIVE Float(_)
Float(x) ==
  IF x = <<>> THEN 0 ELSE 10 * Float(SubSeq(x, 1, Len(x) - 1)) + 1

\* lines 76-83 for one field: the number of the line that raises, 0 if none
\* (PresenceLineAny: option 0 satisfied by either header)
PresenceLineAny(fmt, format_fileoption, formats1, formats2) ==
  LET check1 == fmt \in Range(formats1)
      check2 == fmt \in Range(formats2)
  IN  IF format_fileoption = 0 /\ ~(check1 \/ check2) THEN 79
      ELSE IF format_fileoption = 1 /\ ~check1 THEN 81
      ELSE IF format_fileoption = 2 /\ ~check2 THEN 83
      ELSE 0

PresenceLine(fmt, format_fileoption, formats1, formats2) ==
  LET check1 == fmt \in Range(formats1)
      check2 == fmt \in Range(formats2)
  IN  IF format_fileoption = 0 /\ ~(check1 /\ check2) THEN 79
      ELSE IF format_fileoption = 1 /\ ~check1 THEN 81
      ELSE IF format_fileoption = 2 /\ ~check2 THEN 83
      ELSE 0

GffResult(e, formats, binsizes) ==
  [exc |-> e, formats |-> formats, binsizes |-> binsizes]

\* lines 34-85; formats1 and formats2 are what get_formats (lines 59-64)
\* collects of the two readers' headers
GetFormatFields(format_fields, format_binsizes, format_fileoption, formats1, formats2) ==
  IF ~format_fields.given \/ ~format_binsizes.given
  THEN GffResult(None, <<>>, <<>>)
  ELSE
  LET formats == Split(format_fields.str, ",")
      items == Split(format_binsizes.str, ",")
      pieces == [i \in 1..Len(items) |-> Split(items[i], ":")]
      binsizes == [i \in 1..Len(items) |->
                     [j \in 1..Len(pieces[i]) |-> Float(pieces[i][j])]]
      failing == {i \in 1..Len(formats) :
                    PresenceLine(formats[i], format_fileoption, formats1, formats2) # 0}
  IN
  IF Len(formats) # Len(items) THEN GffResult("ValueError@73", <<>>, <<>>)
  ELSE IF \E i \in 1..Len(items) : \E j \in 1..Len(pieces[i]) : ~IsFloat(pieces[i][j])
  THEN GffResult("ValueError@74", <<>>, <<>>)
  ELSE IF failing # {}
  THEN LET first == CHOOSE i \in failing : \A k \in failing : i <= k
           line == PresenceLine(formats[first], format_fileoption, formats1, formats2)
       IN  GffResult(IF line = 79 THEN "ValueError@79"
                     ELSE IF line = 81 THEN "ValueError@81" ELSE "ValueError@83",
                     <<>>, <<>>)
  ELSE GffResult(None, formats, binsizes)

\* a call that has not been made
NoResult == GffResult("NotCalled", <<>>, <<>>)

\* the arguments tried: the two strings (or None), the option, and the
\* FORMAT ids of the two headers
HeaderFormats == {<<<<"a">>, <<"b">>>>, <<<<"a">>>>}

GffArgs ==
  [format_fields : {NoStr} \cup {Str(s) : s \in Strings({"a", "b", ","}, MaxStr)},
   format_binsizes : {NoStr} \cup {Str(s) : s \in Strings({"1", ":", ","}, MaxStr)},
   format_fileoption : 0..2,
   formats1 : HeaderFormats,
   formats2 : HeaderFormats,
   result : {NoResult}]

NoGff == [format_fields |-> NoStr, format_binsizes |-> NoStr,
          format_fileoption |-> 0, formats1 |-> <<>>, formats2 |-> <<>>,
          result |-> NoResult]

\* ----------------------------------------- TRRecord (sections 3, 4.1)
\* The record as test_trharmonizer.py builds it: a list of samples, each
\* with gt_alleles, called and its identifier.
DummyVCFSample(gt_alleles, called, sample) ==
  [gt_alleles |-> gt_alleles, called |-> called, sample |-> sample]

\* the unknown sentinel for an alternate (None): no sequence; its length
\* comes from the dialect
UnknownAllele == [seq |-> Unset, bp |-> 15]

\* the allele indices the genotypes of the called samples use
UsedIndices(vcfrecord) ==
  UNION {Range(vcfrecord[s].gt_alleles) :
           s \in {x \in 1..Len(vcfrecord) : vcfrecord[x].called}}

SetMax(S) == CHOOSE m \in S : \A x \in S : x <= m

\* NumAllelesImplied as the number of distinct indices used
NumAllelesUsed(vcfrecord) == Cardinality(UsedIndices(vcfrecord) \cup {0})

\* NumAllelesImplied as the largest index used
MaxIndexUsed(vcfrecord) == SetMax(UsedIndices(vcfrecord) \cup {0})

\* the number of alleles the observed genotypes imply: indices 0..max
NumAllelesImplied(vcfrecord) == SetMax(UsedIndices(vcfrecord) \cup {0}) + 1

\* construction: ValueError when the genotypes imply more alleles than the
\* reference and the alternates supply
TRRecord(vcfrecord, ref_allele, alt_alleles, motif_len) ==
  [exc |-> IF NumAllelesImplied(vcfrecord) > 1 + Len(alt_alleles)
           THEN "ValueError" ELSE None,
   vcfrecord |-> vcfrecord, ref_allele |-> ref_allele,
   alt_alleles |-> alt_alleles, motif_len |-> motif_len]

GtResult(e, gt) == [exc |-> e, gt |-> gt]

\* GetStringGenotype with an unknown alternate rendered as a sequence of its
\* own instead of refused
GetStringGenotypeFabricated(rec, sample) ==
  GtResult(None, [k \in 1..Len(sample.gt_alleles) |->
                    AlleleOf(rec, sample.gt_alleles[k]).seq])

\* StringGenotype(sample): the allele sequences in genotype order;
\* UndefinedAlleleError when an index maps to the unknown sentinel
GetStringGenotype(rec, sample) ==
  IF \E k \in 1..Len(sample.gt_alleles) :
       AlleleOf(rec, sample.gt_alleles[k]) = UnknownAllele
  THEN GtResult("UndefinedAlleleError", <<>>)
  ELSE GtResult(None, [k \in 1..Len(sample.gt_alleles) |->
                         AlleleOf(rec, sample.gt_alleles[k]).seq])

\* LengthGenotype(sample): the allele lengths in repeat units
GetLengthGenotype(rec, sample) ==
  GtResult(None, [k \in 1..Len(sample.gt_alleles) |->
                    AlleleOf(rec, sample.gt_alleles[k]).bp \div rec.motif_len])

\* a samplelist argument: None, or a list of identifiers
NoList == [given |-> FALSE, ids |-> {}]
SampleList(ids) == [given |-> TRUE, ids |-> ids]

\* Qualifies with calledness ignored
QualifiesUncalledToo(sample, samplelist) ==
  ~samplelist.given \/ sample.sample \in samplelist.ids

\* the samples GenotypeCounts counts: called, and in samplelist if given
Qualifies(sample, samplelist) ==
  /\ sample.called
  /\ ~samplelist.given \/ sample.sample \in samplelist.ids

\* GenotypeCounts(sampleList, useLength=True): genotype tuple -> count
GetGenotypeCounts(rec, samplelist) ==
  LET use == {s \in 1..Len(rec.vcfrecord) : Qualifies(rec.vcfrecord[s], samplelist)}
      gt(s) == GetLengthGenotype(rec, rec.vcfrecord[s]).gt
  IN  [g \in {gt(s) : s \in use} |-> Cardinality({s \in use : gt(s) = g})]

\* the arguments tried
SampleIds == <<"S1", "S2", "S3", "S4">>
GtAlleles == {<<0>>, <<0, 0>>, <<0, 1>>, <<0, 2>>, <<1, 2>>, <<0, 0, 0>>}

VcfRecords ==
  UNION {{[s \in 1..n |-> DummyVCFSample(e[s].gt_alleles, e[s].called, SampleIds[s])] :
            e \in [1..n -> [gt_alleles : GtAlleles, called : {TRUE}]
                             \cup {[gt_alleles |-> <<0>>, called |-> FALSE]}]} :
         n \in 0..MaxSamples}

AltAlleleLists == {<<>>, <<UnknownAllele>>, <<AltAlleles[1]>>, AltAlleles}

NoRec == TRRecord(<<>>, RefAllele, <<>>, MotifLen)
NoQuery == [kind |-> "None", samplelist |-> NoList, total |-> 0, size |-> 0,
            sample |-> DummyVCFSample(<<>>, FALSE, "None"),
            string |-> GtResult(None, <<>>), length |-> GtResult(None, <<>>)]

TrArgs ==
  [state : {"args"}, vcfrecord : VcfRecords, alt_alleles : AltAlleleLists,
   rec : {NoRec}, query : {NoQuery}]

NoTrr == [state |-> "None", vcfrecord |-> <<>>, alt_alleles |-> <<>>,
          rec |-> NoRec, query |-> NoQuery]

\* --------------------------------------------------------------- state
VARIABLES
  vcfsamples,      \* input: vcf.samples of reader 1 and of reader 2
  numrecords,      \* input: args.numrecords (Unset when not given)
  strict,          \* build: numpy refuses the truth value of an empty array
  pc,              \* where main is
  retcode,         \* Unset until main returns
  raised,          \* None, or the exception that left main
  samples,         \* the shared samples
  sample_idxs,
  vcftypes,        \* vcftype1, vcftype2 (None until inferred)
  current_records,
  is_min,
  done,
  num_records,
  locus_results,
  sample_results,
  outputs,         \* the Output* functions invoked, in order
  infer_calls,     \* history: calls of InferVCFType per reader
  nread,           \* history: records each reader has yielded
  seen,            \* history: the coordinates each reader has yielded
  inorder,         \* history: no reader has yielded a record below its last
  bad_read,        \* history: an undecodable record has been yielded
  compared,        \* history: the loci UpdateComparisonResults was called on
  last_call,       \* history: the last call of UpdateComparisonResults
  gff,             \* a direct call of GetFormatFields: arguments and outcome
  trr              \* a TRRecord built directly and one query of it

vars == <<vcfsamples, numrecords, strict, pc, retcode, raised, samples,
          sample_idxs, vcftypes, current_records, is_min, done, num_records,
          locus_results, sample_results, outputs, infer_calls, nread, seen,
          inorder, bad_read, compared, last_call, gff, trr>>

inputs == <<vcfsamples, numrecords, strict>>
tables == <<locus_results, sample_results>>
walk == <<current_records, is_min, done, num_records>>
reads == <<nread, seen, inorder, bad_read>>
direct == <<gff, trr>>
main == <<inputs, pc, retcode, raised, samples, sample_idxs, vcftypes, walk,
          tables, outputs, infer_calls, reads, compared, last_call>>

NoCall == [record1 |-> NoRecord, record2 |-> NoRecord, exc |-> None,
           locus_before |-> NewLocusResults, sample_before |-> NewSampleResults(0)]

InitCommon ==
  /\ vcfsamples \in VcfSamples
  /\ strict \in BOOLEAN
  /\ retcode = Unset
  /\ raised = None
  /\ samples = <<>>
  /\ sample_idxs = <<>>
  /\ vcftypes = <<None, None>>
  /\ current_records = <<NoRecord, NoRecord>>
  /\ is_min = <<FALSE, FALSE>>
  /\ done = FALSE
  /\ num_records = 0
  /\ locus_results = NewLocusResults
  /\ sample_results = NewSampleResults(0)
  /\ outputs = <<>>
  /\ infer_calls = <<0, 0>>
  /\ nread = <<0, 0>>
  /\ seen = <<{}, {}>>
  /\ inorder = TRUE
  /\ bad_read = FALSE
  /\ compared = <<>>
  /\ last_call = NoCall

Init ==
  /\ InitCommon
  /\ gff = NoGff
  /\ trr = NoTrr
  /\ numrecords \in {Unset} \cup 0..MaxCutoff
  /\ pc = "start"

\* ---------------------------------------------------------------- main
\* main ends by returning code
Return(code) ==
  /\ pc' = "done"
  /\ retcode' = code
  /\ raised' = raised

\* Propagate with the exception ignored where it was raised: main stays
\* where it is
PropagateIgnored(e) ==
  /\ pc' = pc
  /\ retcode' = retcode
  /\ raised' = raised

\* Propagate with the exception caught and reported: main goes on to the
\* output stage
PropagateCaught(e) ==
  /\ pc' = "output"
  /\ retcode' = retcode
  /\ raised' = e

\* an exception raised under main leaves main: nothing in main catches it
\* (only the two TypeErrors of InferVCFType are caught, lines 477-487)
Propagate(e) ==
  /\ pc' = "done"
  /\ retcode' = retcode
  /\ raised' = e

\* lines 444-448
SampleIdxsOf(vs, shared) ==
  [i \in 1..2 |->
     LET sort == ArgSort(vs[i])
         rank == SearchSorted(vs[i], shared, sort)
     IN  NpWhere(Take(sort, rank))]

\* lines 416-475: the output location or the readers are refused (return 1),
\* or the shared samples, their index arrays and the empty tables are set up.
\* args.samples and args.stratify_fields are not given.
Start ==
  /\ pc = "start"
  /\ \/ /\ Return(1)
        /\ UNCHANGED <<samples, sample_idxs, tables>>
     \/ LET shared == GetSharedSamples(vcfsamples)
        IN  IF Len(shared) = 0
            THEN /\ Return(1)
                 /\ samples' = shared
                 /\ UNCHANGED <<sample_idxs, tables>>
            ELSE /\ pc' = "infer1"
                 /\ samples' = shared
                 /\ sample_idxs' = SampleIdxsOf(vcfsamples, shared)
                 /\ locus_results' = NewLocusResults
                 /\ sample_results' = NewSampleResults(Len(shared))
                 /\ UNCHANGED <<retcode, raised>>
  /\ UNCHANGED <<inputs, direct, vcftypes, walk, outputs, infer_calls, reads,
                 compared, last_call>>

\* InferType with the "return 1" of the except clause left out
InferTypeUnchecked(i) ==
  /\ pc = (IF i = 1 THEN "infer1" ELSE "infer2")
  /\ infer_calls' = [infer_calls EXCEPT ![i] = @ + 1]
  /\ pc' = (IF i = 1 THEN "infer2" ELSE "read")
  /\ \/ vcftypes' = [vcftypes EXCEPT ![i] = Dialect]
     \/ UNCHANGED vcftypes
  /\ UNCHANGED <<retcode, raised>>
  /\ UNCHANGED <<inputs, direct, samples, sample_idxs, walk, tables, outputs, reads,
                 compared, last_call>>

\* lines 477-481 (reader 1) and 483-487 (reader 2): InferVCFType returns the
\* dialect or raises TypeError, which main turns into return 1
InferType(i) ==
  /\ pc = (IF i = 1 THEN "infer1" ELSE "infer2")
  /\ infer_calls' = [infer_calls EXCEPT ![i] = @ + 1]
  /\ \/ /\ vcftypes' = [vcftypes EXCEPT ![i] = Dialect]
        /\ pc' = (IF i = 1 THEN "infer2" ELSE "read")
        /\ UNCHANGED <<retcode, raised>>
     \/ /\ Return(1)
        /\ UNCHANGED vcftypes
  /\ UNCHANGED <<inputs, direct, samples, sample_idxs, walk, tables, outputs, reads,
                 compared, last_call>>

\* what next(reader) can give reader i: a record, or nothing more
Yields(i) == IF nread[i] < MaxLen THEN RawRecords \cup {NoRecord} ELSE {NoRecord}

Noted(r, old) == IF r = NoRecord THEN old ELSE old \cup {Coord(r)}

\* lines 490-497: the first record of each reader; next() on an exhausted
\* reader raises StopIteration (reader 2 is not read when reader 1 raised)
ReadFirst ==
  /\ pc = "read"
  /\ \E r1 \in Yields(1), r2 \in Yields(2) :
       IF r1 = NoRecord
       THEN /\ Propagate("StopIteration")
            /\ UNCHANGED <<walk, reads>>
       ELSE IF r2 = NoRecord
       THEN /\ Propagate("StopIteration")
            /\ nread' = <<1, 0>>
            /\ seen' = <<{Coord(r1)}, {}>>
            /\ bad_read' = (r1.kind = "bad")
            /\ UNCHANGED <<walk, inorder>>
       ELSE /\ pc' = "loop"
            /\ current_records' = <<r1, r2>>
            /\ is_min' = GetMinRecords(<<r1, r2>>)
            /\ done' = DoneReading(<<r1, r2>>)
            /\ num_records' = 0
            /\ nread' = <<1, 1>>
            /\ seen' = <<{Coord(r1)}, {Coord(r2)}>>
            /\ bad_read' = (r1.kind = "bad" \/ r2.kind = "bad")
            /\ UNCHANGED <<retcode, raised, inorder>>
  /\ UNCHANGED <<inputs, direct, samples, sample_idxs, vcftypes, tables, outputs,
                 infer_calls, compared, last_call>>

\* AnyNone with all() in the place of any()
AnyNoneAll(records) == \A i \in 1..Len(records) : records[i] = NoRecord

\* line 499
AnyNone(records) == \E i \in 1..Len(records) : records[i] = NoRecord

\* CutoffReached with > in the place of >=
CutoffReachedLate(limit, count) == limit # Unset /\ count > limit

\* line 500
CutoffReached(limit, count) == limit # Unset /\ count >= limit

\* line 503: all([is_min]) is the truth value of the list is_min itself,
\* which is true of any list that is not empty
AllIsMin(mins) == Len(mins) > 0

\* SameLocus without the comparison of CHROM
SameLocusPosOnly(r1, r2) == r1.POS = r2.POS

\* lines 504-505
SameLocus(r1, r2) == r1.CHROM = r2.CHROM /\ r1.POS = r2.POS

\* lines 503-505: whether this iteration compares its two current records
Compares(records, mins) == AllIsMin(mins) /\ SameLocus(records[1], records[2])

\* ComparePair with only the first record's decoding failure noticed
ComparePairFirstOnly(records, types, idxs, locus, sample, np_strict) ==
  IF ~Decodable(types[1], records[1])
  THEN Raised("HarmonizationError", locus, sample)
  ELSE UpdateComparisonResults(
         HarmonizeRecord(types[1], records[1], Len(vcfsamples[1])),
         HarmonizeRecord(types[2], records[2], Len(vcfsamples[2])),
         idxs, locus, sample, np_strict)

\* lines 506-509: both records are harmonized, then compared; the result
\* is that of UpdateComparisonResults, or the harmonizer's exception with
\* the tables untouched
ComparePair(records, types, idxs, locus, sample, np_strict) ==
  IF ~Decodable(types[1], records[1]) \/ ~Decodable(types[2], records[2])
  THEN Raised("HarmonizationError", locus, sample)
  ELSE UpdateComparisonResults(
         HarmonizeRecord(types[1], records[1], Len(vcfsamples[1])),
         HarmonizeRecord(types[2], records[2], Len(vcfsamples[2])),
         idxs, locus, sample, np_strict)

CallOf(records, result, locus, sample) ==
  [record1 |-> records[1], record2 |-> records[2], exc |-> result.exc,
   locus_before |-> locus, sample_before |-> sample]

\* lines 510-513: GetNextRecords reads the next record of each stream at the
\* minimum (None once the reader is exhausted) and holds the others; a reader
\* that yields a record below its last one is a fatal ordering violation
Advance ==
  \E n1 \in (IF is_min[1] THEN Yields(1) ELSE {current_records[1]}),
     n2 \in (IF is_min[2] THEN Yields(2) ELSE {current_records[2]}) :
    LET new == <<n1, n2>>
        got == [i \in 1..2 |-> is_min[i] /\ new[i] # NoRecord]
        disorder == \E i \in 1..2 :
                      is_min[i] /\ OutOfOrder(current_records[i], new[i])
    IN  /\ nread' = [i \in 1..2 |-> nread[i] + B2I(got[i])]
        /\ seen' = [i \in 1..2 |->
                      IF got[i] THEN Noted(new[i], seen[i]) ELSE seen[i]]
        /\ bad_read' = (bad_read \/ \E i \in 1..2 : got[i] /\ new[i].kind = "bad")
        /\ inorder' = (inorder /\ ~disorder)
        /\ IF disorder
           THEN /\ Propagate("OrderingViolationError")
                /\ UNCHANGED walk
           ELSE /\ current_records' = new
                /\ is_min' = GetMinRecords(new)
                /\ done' = DoneReading(new)
                /\ num_records' = num_records + 1
                /\ UNCHANGED <<pc, retcode, raised>>

\* lines 498-513: the loop condition, and one iteration of the while loop
Walk ==
  /\ pc = "loop"
  /\ IF done \/ AnyNone(current_records) \/ CutoffReached(numrecords, num_records)
     THEN /\ pc' = "output"
          /\ UNCHANGED <<retcode, raised, walk, tables, reads, compared, last_call>>
     ELSE IF CheckMin(is_min)
     THEN /\ Return(1)
          /\ UNCHANGED <<walk, tables, reads, compared, last_call>>
     ELSE IF Compares(current_records, is_min)
     THEN LET result == ComparePair(current_records, vcftypes, sample_idxs,
                                    locus_results, sample_results, strict)
          IN  /\ compared' = Append(compared, Coord(current_records[1]))
              /\ last_call' = CallOf(current_records, result,
                                     locus_results, sample_results)
              /\ locus_results' = result.locus
              /\ sample_results' = result.sample
              /\ IF result.exc # None
                 THEN /\ Propagate(result.exc)
                      /\ UNCHANGED <<walk, reads>>
                 ELSE Advance
     ELSE /\ Advance
          /\ UNCHANGED <<tables, compared, last_call>>
  /\ UNCHANGED <<inputs, direct, samples, sample_idxs, vcftypes, outputs, infer_calls>>

\* the columns each output function reads of the table it is handed
\* line 104: groupby(["chrom","start"]).agg({...})
OutputLocusMetricsReads ==
  {"chrom", "start", "metric-conc-seq", "metric-conc-len", "sample"}
\* line 140: groupby(["sample"]).agg({...})
OutputSampleMetricsReads ==
  {"sample", "metric-conc-seq", "metric-conc-len", "start"}
\* lines 188-197
OutputOverallMetricsReads ==
  {"period", "metric-conc-seq", "metric-conc-len", "gtsum1", "gtsum2"}
\* lines 271-281
OutputBubblePlotReads == {"period", "gtsum1", "gtsum2", "sample"}

\* lines 515-525: the output stage. OutputOverallMetrics is handed
\* locus_results, the dict of lists built at lines 458-467, and asks it for
\* .shape (line 193), which a dict does not have: AttributeError, and none
\* of the later Output* calls nor "return 0" is reached
Output ==
  /\ pc = "output"
  /\ outputs' = Append(outputs, "OutputOverallMetrics")
  /\ Propagate("AttributeError@193")
  /\ UNCHANGED <<inputs, direct, samples, sample_idxs, vcftypes, walk, tables,
                 infer_calls, reads, compared, last_call>>

Next ==
  \/ Start
  \/ InferType(1)
  \/ InferType(2)
  \/ ReadFirst
  \/ Walk
  \/ Output

Spec == Init /\ [][Next]_vars

\* main's scheduling: a Python function runs on until it returns or raises
FairSpec == Spec /\ WF_vars(Next)

\* ------------------------------- UpdateComparisonResults called directly
\* sample_idxs as the docstring (lines 357-361) asks for it: two index
\* arrays with vcf1.samples[sample_idxs[0]] == vcf2.samples[sample_idxs[1]]
\* == the shared samples
DocSampleIdxs(vs, shared) ==
  [i \in 1..2 |-> NpArray([k \in 1..Len(shared) |-> IndexOf(vs[i], shared[k])])]

\* what a harmonized record can hold for one sample
SampleEntries == {Uncalled, Called(<<0>>), Called(<<0, 1>>), Called(<<0, 2>>)}

TRRecords(pos, nsamples) ==
  [CHROM : {chroms[1]}, POS : {pos}, motif_len : {MotifLen},
   ref_allele : {RefAllele}, alt_alleles : {AltAlleles},
   samples : [1..nsamples -> SampleEntries]]

InitUCR ==
  /\ InitCommon
  /\ gff = NoGff
  /\ trr = NoTrr
  /\ Len(GetSharedSamples(vcfsamples)) > 0
  /\ numrecords = Unset
  /\ pc = "call"

\* the caller has built the tables as main does (lines 458-472)
Prepare ==
  /\ pc = "call"
  /\ samples = <<>>
  /\ samples' = GetSharedSamples(vcfsamples)
  /\ sample_idxs' = DocSampleIdxs(vcfsamples, GetSharedSamples(vcfsamples))
  /\ locus_results' = NewLocusResults
  /\ sample_results' = NewSampleResults(Len(GetSharedSamples(vcfsamples)))
  /\ UNCHANGED <<inputs, direct, pc, retcode, raised, vcftypes, walk, outputs,
                 infer_calls, reads, compared, last_call>>

\* one call on two records of the same locus; the tables are the caller's
\* and keep what the call did to them, also when it raises
DirectCall ==
  /\ pc = "call"
  /\ samples # <<>>
  /\ raised = None
  /\ Len(compared) < MaxCalls
  /\ \E record1 \in TRRecords(Len(compared) + 1, Len(vcfsamples[1])),
        record2 \in TRRecords(Len(compared) + 1, Len(vcfsamples[2])) :
       LET result == UpdateComparisonResults(record1, record2, sample_idxs,
                                             locus_results, sample_results, strict)
       IN  /\ compared' = Append(compared, Coord(record1))
           /\ last_call' = CallOf(<<record1, record2>>, result,
                                  locus_results, sample_results)
           /\ locus_results' = result.locus
           /\ sample_results' = result.sample
           /\ raised' = result.exc
  /\ UNCHANGED <<inputs, direct, pc, retcode, samples, sample_idxs, vcftypes, walk,
                 outputs, infer_calls, reads>>

NextUCR ==
  \/ Prepare
  \/ DirectCall

SpecUCR == InitUCR /\ [][NextUCR]_vars

\* ------------------------------------- GetFormatFields called directly
\* main is not running: its inputs are held at one fixture
InitGFF ==
  /\ InitCommon
  /\ vcfsamples = << <<1, 2>>, <<1, 2>> >>
  /\ ~strict
  /\ numrecords = Unset
  /\ pc = "gff"
  /\ gff \in GffArgs
  /\ trr = NoTrr

CallGetFormatFields ==
  /\ pc = "gff"
  /\ gff.result = NoResult
  /\ gff' = [gff EXCEPT !.result =
               GetFormatFields(gff.format_fields, gff.format_binsizes,
                               gff.format_fileoption, gff.formats1, gff.formats2)]
  /\ UNCHANGED <<inputs, pc, retcode, raised, samples, sample_idxs, vcftypes,
                 walk, tables, outputs, infer_calls, reads, compared, last_call,
                 trr>>

NextGFF == CallGetFormatFields

SpecGFF == InitGFF /\ [][NextGFF]_vars

\* -------------------------------------------- TRRecord built directly
InitTR ==
  /\ InitCommon
  /\ vcfsamples = << <<1, 2>>, <<1, 2>> >>
  /\ ~strict
  /\ numrecords = Unset
  /\ pc = "trr"
  /\ gff = NoGff
  /\ trr \in TrArgs

\* trh.TRRecord(vcfrecord, ref_allele, alt_alleles, "CAG", "")
Construct ==
  /\ pc = "trr"
  /\ trr.state = "args"
  /\ LET rec == TRRecord(trr.vcfrecord, RefAllele, trr.alt_alleles, MotifLen)
     IN  trr' = [trr EXCEPT !.rec = rec,
                            !.state = IF rec.exc = None THEN "built" ELSE "failed"]
  /\ UNCHANGED <<main, gff>>

RECURSIVE SumCounts(_)
SumCounts(counts) ==
  IF DOMAIN counts = {} THEN 0
  ELSE LET g == CHOOSE x \in DOMAIN counts : TRUE
       IN  counts[g] + SumCounts([x \in DOMAIN counts \ {g} |-> counts[x]])

\* the sample lists asked for: None, or identifiers of the record and one
\* that no record has
SampleLists == {NoList} \cup {SampleList(S) : S \in SUBSET {"S1", "S2", "S9"}}

\* rec.GetGenotypeCounts(samplelist = S)
CallGetGenotypeCounts ==
  /\ pc = "trr"
  /\ trr.state = "built"
  /\ \E S \in SampleLists :
       LET counts == GetGenotypeCounts(trr.rec, S)
       IN  trr' = [trr EXCEPT !.state = "counted",
                              !.query = [NoQuery EXCEPT !.kind = "counts",
                                                        !.samplelist = S,
                                                        !.total = SumCounts(counts),
                                                        !.size = Cardinality(DOMAIN counts)]]
  /\ UNCHANGED <<main, gff>>

\* rec.GetStringGenotype(sample) and rec.GetLengthGenotype(sample) for a
\* called sample of the record
CallGetGenotypes ==
  /\ pc = "trr"
  /\ trr.state = "built"
  /\ \E s \in 1..Len(trr.rec.vcfrecord) :
       /\ trr.rec.vcfrecord[s].called
       /\ trr' = [trr EXCEPT !.state = "read",
                             !.query = [NoQuery EXCEPT
                                          !.kind = "genotypes",
                                          !.sample = trr.rec.vcfrecord[s],
                                          !.string = GetStringGenotype(trr.rec, trr.rec.vcfrecord[s]),
                                          !.length = GetLengthGenotype(trr.rec, trr.rec.vcfrecord[s])]]
  /\ UNCHANGED <<main, gff>>

NextTR ==
  \/ Construct
  \/ CallGetGenotypeCounts
  \/ CallGetGenotypes

SpecTR == InitTR /\ [][NextTR]_vars

\* ============================================================== claims
AtSameCoordinate ==
  /\ current_records[1] # NoRecord
  /\ current_records[2] # NoRecord
  /\ current_records[1].CHROM = current_records[2].CHROM
  /\ current_records[1].POS = current_records[2].POS

IsPrefix(a, b) == Len(a) <= Len(b) /\ \A j \in 1..Len(a) : a[j] = b[j]

\* C1: in the walk, UpdateComparisonResults is called, and a result table
\* changes, only in a step whose two current records have the same CHROM and
\* the same POS; a step at different coordinates compares nothing and adds
\* no row.
C1_ComparesOnlyAligned ==
  [][(pc = "loop" /\ (compared' # compared \/ locus_results' # locus_results
                      \/ sample_results' # sample_results))
     => AtSameCoordinate]_vars

\* an unaligned iteration has passed and then a pair was compared
C1_Witness == num_records >= 1 /\ Len(compared) = 1 /\ Len(locus_results["chrom"]) = 1

\* the shared samples (positions in samples) called in both records of the
\* last direct call, found by sample identifier
SampleOf(rec, i, k) == rec.samples[IndexOf(vcfsamples[i], samples[k]) + 1]

JointlyCalled ==
  {k \in 1..Len(samples) :
     /\ SampleOf(last_call.record1, 1, k).called
     /\ SampleOf(last_call.record2, 2, k).called}

PloidyMismatch ==
  \E k \in JointlyCalled :
    Len(SampleOf(last_call.record1, 1, k).gt) # Len(SampleOf(last_call.record2, 2, k).gt)

IsValueError(e) ==
  e \in {"ValueError@373", "ValueError@391", "ValueError@392", "ValueError@411",
         "ValueError@412"}

\* C2: a call of UpdateComparisonResults raises ValueError exactly when some
\* jointly called shared sample has a different ploidy in the two records,
\* and returns without raising otherwise, however many samples are jointly
\* called.
C2_RaisesExactlyOnPloidyMismatch ==
  compared # <<>> =>
    IF PloidyMismatch THEN IsValueError(last_call.exc) ELSE last_call.exc = None

\* C3: a call that raises for a ploidy mismatch leaves every column of
\* locus_results and every array of sample_results as it found them.
C3_PloidyRaiseLeavesTables ==
  last_call.exc = "ValueError@392" =>
    /\ locus_results = last_call.locus_before
    /\ sample_results = last_call.sample_before

\* C4: once a reader has yielded a record below the record it yielded just
\* before, main has ended with an error (an exception or return code 1): the
\* walk goes on to no further comparison and to no output.
C4_DisorderIsFatal ==
  ~inorder =>
    /\ pc = "done"
    /\ (raised # None \/ retcode = 1)
    /\ outputs = <<>>

\* a reader has yielded a record below its last one, after an iteration
C4_Witness == ~inorder /\ raised = "OrderingViolationError" /\ nread[1] + nread[2] >= 3

RowsKept ==
  /\ \A k \in LocusKeys : IsPrefix(locus_results[k], locus_results'[k])
  /\ \A k \in SampleKeys : \A j \in 1..Len(sample_results[k]) :
       sample_results'[k][j] >= sample_results[k][j]

\* C5: main's walk terminates; an iteration that stays in the loop advances a
\* stream (reads a record of it or finds it exhausted); the loop is left in
\* the iteration that finds a stream exhausted; and no step of the walk takes
\* away a row the tables already hold.
C5_WalkTerminates ==
  /\ <>(pc = "done")
  /\ [][(pc = "loop" /\ pc' = "loop")
        => \E i \in 1..2 :
             \/ nread'[i] > nread[i]
             \/ current_records[i] # NoRecord /\ current_records'[i] = NoRecord]_vars
  /\ [][(pc = "loop" /\ \E i \in 1..2 : current_records[i] = NoRecord)
        => pc' = "output"]_vars
  /\ [][(pc \in {"loop", "output"}) => RowsKept]_vars

\* the loop was left after two iterations because a reader was exhausted
C5_Witness ==
  /\ pc = "output"
  /\ num_records >= 2
  /\ \E i \in 1..2 : current_records[i] = NoRecord

\* C6: in a run in which the walk met a fatal error (UpdateComparisonResults
\* or HarmonizeRecord raised, a reader was out of order, or the walk returned
\* 1), no Output* function is invoked and main does not return 0.
C6_FatalErrorNoOutput ==
  (last_call.exc # None \/ ~inorder \/ (retcode = 1 /\ nread # <<0, 0>>))
    => /\ pc = "done"
       /\ outputs = <<>>
       /\ retcode # 0

\* UpdateComparisonResults raised on a pair met after an unaligned iteration
C6_Witness ==
  /\ last_call.exc \notin {None, "HarmonizationError"}
  /\ raised = last_call.exc
  /\ num_records >= 1

\* C7 as claimed: whenever a record that cannot be decoded has been read
\* (here: in a run without --numrecords), main aborts and does not go on to
\* the final tables.
C7_UndecodableAlwaysFatal ==
  (numrecords = Unset /\ bad_read) => (pc # "output" /\ outputs = <<>>)

\* C7, amended: an iteration that is not cut short (no reader exhausted, the
\* cutoff not reached) and whose two current records are at the same CHROM
\* and POS, one of them undecodable, ends main with the harmonizer's error,
\* both tables as they were; and after that error no Output* function runs.
\* (An undecodable record whose coordinate the other reader does not have is
\* never decoded.)
C7_UndecodableAlignedIsFatal ==
  /\ [][(/\ pc = "loop"
         /\ AtSameCoordinate
         /\ (numrecords # Unset => num_records < numrecords)
         /\ \E i \in 1..2 : current_records[i].kind = "bad")
        => /\ pc' = "done"
           /\ raised' = "HarmonizationError"
           /\ locus_results' = locus_results
           /\ sample_results' = sample_results]_vars
  /\ [](raised = "HarmonizationError" => outputs = <<>> /\ retcode = Unset)

\* the aligned pair whose second record is undecodable ended main
C7_Witness ==
  /\ raised = "HarmonizationError"
  /\ current_records[1].kind = "ref"
  /\ current_records[2].kind = "bad"
  /\ pc = "done"

\* C8: InferVCFType is called at most once per reader, both calls are over
\* before a record is read and none is made later; and when an inference
\* raised TypeError main has returned 1 with no record read, no pair
\* compared and no output invoked.
C8_TypesInferredOnceBeforeReading ==
  /\ \A i \in 1..2 : infer_calls[i] <= 1
  /\ (nread # <<0, 0>> \/ pc \in {"read", "loop", "output"})
       => (infer_calls = <<1, 1>> /\ vcftypes = <<Dialect, Dialect>>)
  /\ (\E i \in 1..2 : infer_calls[i] = 1 /\ vcftypes[i] = None)
       => /\ pc = "done"
          /\ retcode = 1
          /\ raised = None
          /\ nread = <<0, 0>>
          /\ compared = <<>>
          /\ outputs = <<>>

\* the inference for reader 2 failed after that for reader 1 succeeded
C8_Witness == infer_calls = <<1, 1>> /\ vcftypes = <<Dialect, None>> /\ retcode = 1

SharedCoordinates == seen[1] \cap seen[2]

\* C9 as claimed: with a cutoff k and two sorted readers that share at least
\* k coordinates, the walk has compared exactly k aligned pairs when it
\* leaves the loop.
C9_CutoffCountsAlignedPairs ==
  (/\ pc = "output"
   /\ numrecords # Unset
   /\ inorder
   /\ Cardinality(SharedCoordinates) >= numrecords)
    => Len(compared) = numrecords

\* C9, amended: the cutoff counts the iterations of the loop, aligned or not:
\* with a cutoff k the loop completes at most k iterations, so at most k
\* pairs are compared and each reader yields at most k + 1 records.
C9_CutoffCountsIterations ==
  numrecords # Unset =>
    /\ num_records <= numrecords
    /\ Len(compared) <= numrecords
    /\ \A i \in 1..2 : nread[i] <= numrecords + 1

\* the cutoff ended the walk on a shared coordinate it had not yet compared
C9_Witness ==
  /\ pc = "output"
  /\ numrecords = 1
  /\ num_records = 1
  /\ inorder
  /\ AtSameCoordinate
  /\ compared = <<>>

LastRow(key) == locus_results[key][Len(locus_results[key])]

\* C10: after a direct call that returned, the locus's numcalls is the number
\* of shared samples called in both records, and the sequence-concordance
\* flags, the length-concordance flags, gtsum1 and gtsum2 appended for the
\* locus each hold that many entries.
C10_OnlyJointlyCalledCount ==
  (compared # <<>> /\ last_call.exc = None) =>
    /\ \A k \in LocusKeys : Len(locus_results[k]) = Len(compared)
    /\ LastRow("numcalls") = Cardinality(JointlyCalled)
    /\ \A k \in {"metric-conc-seq", "metric-conc-len", "gtsum1", "gtsum2"} :
         Len(LastRow(k)) = Cardinality(JointlyCalled)

\* a call returned on two shared samples of which one is uncalled in a record
C10_Witness ==
  /\ compared # <<>>
  /\ last_call.exc = None
  /\ Len(samples) = 2
  /\ Cardinality(JointlyCalled) = 1

\* C11: once main has computed sample_idxs, indexing each reader's sample
\* list by its entry gives the shared list: vcfreaders[i].samples[
\* sample_idxs[i]] == samples, one index per shared sample, in the order of
\* the shared list (the comment of line 449).
C11_SampleIdxsMapShared ==
  (pc \in {"infer1", "infer2", "read", "loop", "output"} /\ samples # <<>>) =>
    \A i \in 1..2 :
      /\ Len(sample_idxs[i].idx) = Len(samples)
      /\ InRange(vcfsamples[i], sample_idxs[i].idx)
      /\ Take(vcfsamples[i], sample_idxs[i].idx) = samples

\* C16: at the output stage the table handed to each output function has
\* every column the function reads (locus_results for OutputOverallMetrics,
\* OutputBubblePlot and OutputLocusMetrics, sample_results for
\* OutputSampleMetrics), and a main that entered the output stage ends by
\* returning 0.
C16_OutputColumnsPopulated ==
  /\ pc = "output" =>
       /\ (OutputOverallMetricsReads \cup OutputBubblePlotReads
             \cup OutputLocusMetricsReads) \subseteq DOMAIN locus_results
       /\ OutputSampleMetricsReads \subseteq DOMAIN sample_results
  /\ (pc = "done" /\ outputs # <<>>) => (retcode = 0 /\ raised = None)

\* position (1-based) of shared sample k in reader i's sample list
SamplePos(i, k) == IndexOf(vcfsamples[i], samples[k]) + 1

SeqMatch(k) ==
  GetStringGenotypes(last_call.record1)[SamplePos(1, k)]
    = GetStringGenotypes(last_call.record2)[SamplePos(2, k)]

LenMatch(k) ==
  GetLengthGenotypes(last_call.record1)[SamplePos(1, k)]
    = GetLengthGenotypes(last_call.record2)[SamplePos(2, k)]

\* C17: a call of UpdateComparisonResults that returns adds, for every
\* shared sample s, 1 to numcalls[s] exactly when s is called in both
\* records, 1 to conc-seq-count[s] (conc-len-count[s]) exactly when s is
\* called in both and its sequence (length) genotypes match, and nothing
\* otherwise; so conc-seq-count[s] <= numcalls[s] and conc-len-count[s] <=
\* numcalls[s] after any number of such calls.
C17_SampleTotals ==
  (compared # <<>> /\ last_call.exc = None) =>
    \A k \in 1..Len(samples) :
      LET before == last_call.sample_before
          joint == k \in JointlyCalled
      IN  /\ sample_results["numcalls"][k] = before["numcalls"][k] + B2I(joint)
          /\ sample_results["conc-seq-count"][k]
               = before["conc-seq-count"][k] + B2I(joint /\ SeqMatch(k))
          /\ sample_results["conc-len-count"][k]
               = before["conc-len-count"][k] + B2I(joint /\ LenMatch(k))
          /\ sample_results["conc-seq-count"][k] <= sample_results["numcalls"][k]
          /\ sample_results["conc-len-count"][k] <= sample_results["numcalls"][k]

\* both readers have yielded strictly increasing, decodable records and no
\* cutoff is set
CleanStreams ==
  /\ numrecords = Unset
  /\ inorder
  /\ ~bad_read
  /\ \A i \in 1..2 : Cardinality(seen[i]) = nread[i]

\* the walk was entered (both first reads gave a record) and is over: the
\* loop was left, or an exception left it
WalkOver ==
  /\ \A i \in 1..2 : nread[i] > 0
  /\ pc = "output" \/ (pc = "done" /\ outputs = <<>>)

\* C18: over two strictly increasing streams without cutoff the walk is not
\* ended by an error; when it is over it has compared exactly the
\* coordinates both readers yielded, each once and in increasing order, and
\* the locus rows are those coordinates in that order.
C18_SharedCoordinatesComparedOnce ==
  (CleanStreams /\ WalkOver) =>
    /\ raised = None
    /\ Range(compared) = SharedCoordinates
    /\ \A j, k \in 1..Len(compared) : j < k => Less(compared[j], compared[k])
    /\ Len(locus_results["chrom"]) = Len(compared)
    /\ Len(locus_results["start"]) = Len(compared)
    /\ \A j \in 1..Len(compared) :
         /\ IndexOf(chroms, locus_results["chrom"][j]) = compared[j][1]
         /\ locus_results["start"][j] = compared[j][2]

\* how many comma-separated items a string lists
ItemCount(s) == Cardinality({j \in 1..Len(s) : s[j] = ","}) + 1

\* the pieces put together again, with sep between them
RECURSIVE Join(_, _)
Join(pieces, sep) ==
  IF Len(pieces) = 1 THEN pieces[1]
  ELSE pieces[1] \o <<sep>> \o Join(Tail(pieces), sep)

\* the rule of the option for one field
Present(fmt) ==
  LET in1 == \E j \in 1..Len(gff.formats1) : gff.formats1[j] = fmt
      in2 == \E j \in 1..Len(gff.formats2) : gff.formats2[j] = fmt
  IN  CASE gff.format_fileoption = 0 -> in1 /\ in2
        [] gff.format_fileoption = 1 -> in1
        [] gff.format_fileoption = 2 -> in2

\* a number written out in digits
RECURSIVE Repr(_)
Repr(n) ==
  IF n = 0 THEN <<>>
  ELSE Repr(n \div 10) \o <<IF n % 10 = 1 THEN "1" ELSE "?">>

IsGffValueError(e) ==
  e \in {"ValueError@73", "ValueError@74", "ValueError@79", "ValueError@81",
         "ValueError@83"}

\* C19: GetFormatFields returns two empty lists when the fields or the bin
\* sizes are not given; otherwise it raises ValueError when the two lists
\* differ in length and when a requested field fails the presence rule of
\* the option; and when it returns, the fields are the requested ones in
\* order, each satisfies the rule, there are as many bin specifications as
\* fields, and they are the items of the bin-size list in order.
C19_GetFormatFields ==
  gff.result # NoResult =>
    LET r == gff.result
        fields == gff.format_fields
        bins == gff.format_binsizes
    IN  IF ~fields.given \/ ~bins.given
        THEN r.exc = None /\ r.formats = <<>> /\ r.binsizes = <<>>
        ELSE /\ ItemCount(fields.str) # ItemCount(bins.str) => IsGffValueError(r.exc)
             /\ (\E f \in Strings({"a", "b"}, MaxStr) :
                   /\ \E i, j \in 0..Len(fields.str) :
                        /\ SubSeq(fields.str, i + 1, j) = f
                        /\ (i = 0 \/ fields.str[i] = ",")
                        /\ (j = Len(fields.str) \/ fields.str[j + 1] = ",")
                        /\ i <= j
                   /\ ~Present(f))
                  => IsGffValueError(r.exc)
             /\ r.exc = None =>
                  /\ Len(r.formats) = ItemCount(fields.str)
                  /\ Len(r.binsizes) = Len(r.formats)
                  /\ Join(r.formats, ",") = fields.str
                  /\ \A i \in 1..Len(r.formats) : Present(r.formats[i])
                  /\ Join([i \in 1..Len(r.binsizes) |->
                             Join([j \in 1..Len(r.binsizes[i]) |->
                                     Repr(r.binsizes[i][j])], ":")], ",")
                       = bins.str

\* a call with two fields under option 0, both in both headers, returned
C19_Witness ==
  /\ gff.result.exc = None
  /\ gff.format_fileoption = 0
  /\ Len(gff.result.formats) = 2
  /\ gff.result.formats[1] # gff.result.formats[2]

Constructed == trr.state \in {"built", "counted", "read"}

\* C12: constructing a TRRecord raises ValueError whenever the genotypes of
\* its called samples use more distinct allele indices than there are alleles
\* (the reference and the alternates); and it succeeds when every index used
\* is declared, whether or not every declared alternate is used.
C12_ConstructionRejectsExtraIndices ==
  trr.state \in {"built", "failed", "counted", "read"} =>
    /\ Cardinality(UsedIndices(trr.vcfrecord)) > 1 + Len(trr.alt_alleles)
         => (trr.state = "failed" /\ trr.rec.exc = "ValueError")
    /\ UsedIndices(trr.vcfrecord) \subseteq 0..Len(trr.alt_alleles)
         => (trr.state # "failed" /\ trr.rec.exc = None)

\* genotypes using 0, 1 and 2 with a single alternate were refused
C12_Witness ==
  /\ trr.state = "failed"
  /\ UsedIndices(trr.vcfrecord) = {0, 1, 2}
  /\ Len(trr.alt_alleles) = 1

\* C13: in a constructed TRRecord every allele index of a called sample's
\* genotype is 0 or at most the number of declared alternates, so that it
\* resolves to ref_allele or to an entry of alt_alleles; genotypes using
\* only 0 and 2 with one declared alternate are not constructed.
C13_CalledIndicesResolve ==
  /\ Constructed =>
       \A s \in 1..Len(trr.rec.vcfrecord) :
         trr.rec.vcfrecord[s].called =>
           \A k \in 1..Len(trr.rec.vcfrecord[s].gt_alleles) :
             LET i == trr.rec.vcfrecord[s].gt_alleles[k]
             IN  /\ i \in 0..Len(trr.rec.alt_alleles)
                 /\ AlleleOf(trr.rec, i) # MissingAllele
  /\ (UsedIndices(trr.vcfrecord) = {0, 2} /\ Len(trr.alt_alleles) = 1)
       => ~Constructed

\* a record whose genotypes use index 2 was constructed with two alternates
C13_Witness ==
  /\ trr.state = "built"
  /\ 2 \in UsedIndices(trr.vcfrecord)
  /\ Len(trr.rec.alt_alleles) = 2

\* the called samples of the record that the sample list of the query names
CalledIn(S) ==
  {s \in 1..Len(trr.rec.vcfrecord) :
     /\ trr.rec.vcfrecord[s].called
     /\ (S.given => trr.rec.vcfrecord[s].sample \in S.ids)}

\* C14: the counts GetGenotypeCounts(samplelist=S) returns sum to the number
\* of called samples of the record that are in S (all called samples when S
\* is None), and the mapping is empty when there is none.
C14_GenotypeCountsTotal ==
  trr.state = "counted" =>
    /\ trr.query.total = Cardinality(CalledIn(trr.query.samplelist))
    /\ CalledIn(trr.query.samplelist) = {} => trr.query.size = 0

\* a list naming a called sample, an uncalled sample and an absent sample
C14_Witness ==
  /\ trr.state = "counted"
  /\ trr.query.samplelist = SampleList({"S1", "S2", "S9"})
  /\ Len(trr.rec.vcfrecord) = 2
  /\ trr.rec.vcfrecord[1].called
  /\ ~trr.rec.vcfrecord[2].called
  /\ trr.query.total = 1

\* C15: in a TRRecord whose alt_alleles is only the unknown sentinel, the
\* string genotype of a homozygous-reference sample is ref_allele at every
\* position and its length genotype the reference length at every position,
\* and the string genotype of a sample that uses a non-reference allele is
\* an error.
C15_UnknownAltGenotypes ==
  (trr.state = "read" /\ trr.rec.alt_alleles = <<UnknownAllele>>) =>
    LET gt == trr.query.sample.gt_alleles
    IN  IF \A k \in 1..Len(gt) : gt[k] = 0
        THEN /\ trr.query.string = GtResult(None, [k \in 1..Len(gt) |-> RefAllele.seq])
             /\ trr.query.length
                  = GtResult(None, [k \in 1..Len(gt) |-> RefAllele.bp \div MotifLen])
        ELSE trr.query.string.exc # None

\* the string genotype of a 0/1 sample was asked of such a record
C15_Witness ==
  /\ trr.state = "read"
  /\ trr.rec.alt_alleles = <<UnknownAllele>>
  /\ trr.query.sample.gt_alleles = <<0, 1>>
  /\ trr.query.string.exc = "UndefinedAlleleError"

====
